---------------------------- MODULE Spec2Model ----------------------------
(***************************************************************************)
(* A model of examples/lsp_spice.py of python-flux: a straight-line script *)
(* that queries the sun's ephemeris, turns the positions into unit         *)
(* directions, computes the direct irradiance of every face for every      *)
(* sample, solves the steady-state temperature and writes three PNG frames *)
(* per sample.                                                             *)
(*                                                                         *)
(* One action per statement of the script.  pc is the statement about to   *)
(* run; a library call either returns (the statement's action) or raises   *)
(* (Raise), which ends the script.                                         *)
(*                                                                         *)
(* Numbers.  Angles are exact: an angle is [c, s, d, k] with cosine c/d,   *)
(* sine s/d and value theta + 2*pi*k, theta in (-pi, pi] the angle of the  *)
(* point (c, s).  The ephemeris positions are integer vectors whose        *)
(* horizontal and full norms are integers, so that every square root, sine *)
(* and cosine of the script is a rational number.  Floating-point rounding *)
(* is not modelled.                                                        *)
(***************************************************************************)
EXTENDS Integers, Sequences, FiniteSets, TLC

VARIABLES
    pc,         \* the statement about to run, "done" or "crashed"
    i,          \* the loop variable of the two for loops (0-based)
    raised,     \* the statement whose call raised, or "none"
    et0, et1,   \* the time window (seconds, relative to et0's epoch)
    et,         \* the sample times
    possun,     \* sun positions, one <<x, y, z>> per sample
    lonsun,     \* longitudes, one angle per sample
    latsun,     \* latitudes, one angle per sample
    sun_dirs,   \* unit directions, one [num, den] per sample
    V, F, N,    \* the arrays of vertices, faces and normals, <<>> until loaded
    shape_model,\* [V, F, N] once built, else <<>>
    FF,         \* the compressed form factor matrix read from file, or -1
    FF_gt,      \* the form factor block computed from the shape model, or -1
    E_arr,      \* list of irradiance vectors, one per sample
    E,          \* irradiance matrix, E[f][j]: face f, sample j (1-based)
    T_arr,      \* list of temperature vectors returned by the solve
    T,          \* temperature matrix, T[f][j]
    dirs,       \* directories that exist
    reads,      \* the input files read, in order
    writes,     \* the frames written, in order: [name, shown, cmap]
    figs,       \* the figures created, in order: [open, saves, shown, cmap]
    fig,        \* the figure bound to the name fig (index in figs), or 0
    calls       \* the library calls made, in order: [fn, idx]

vars == <<pc, i, raised, et0, et1, et, possun, lonsun, latsun, sun_dirs,
          V, F, N, shape_model, FF, FF_gt, E_arr, E, T_arr, T, dirs, reads,
          writes, figs, fig, calls>>

-----------------------------------------------------------------------------
(* Bounds of the model *)

\* number of faces of the shape model (the size of lsp_F.npy)
NFaces == 2

\* number of ephemerides the SPICE kernels may hold
MaxTraj == 1

\* number of different form factor matrices
MaxFF == 2

(* Program constants *)

\* np.linspace(et0, et1, 100, endpoint=False)
NSamples == 100

\* F0 = 1365, the solar constant
F0 == 1365

\* rho = 0.12, in percent
RhoPct == 12

\* emiss = 0.95, in percent
EmissPct == 95

\* the width of '%03d'
PadWidth == 3

-----------------------------------------------------------------------------
(* Arithmetic helpers *)

ISqrt(n) == CHOOSE r \in 0..n : r * r <= n /\ (r + 1) * (r + 1) > n

Dot(a, b) == a[1] * b[1] + a[2] * b[2] + a[3] * b[3]

RECURSIVE SumSeq(_)
SumSeq(s) == IF s = <<>> THEN 0 ELSE Head(s) + SumSeq(Tail(s))


-----------------------------------------------------------------------------
(* The ephemeris toolkit (spiceypy), as far as the script uses it *)

\* spice.str2et: seconds past J2000 of the two epochs the script names
Str2et(s) ==
    CASE s = "2011 MAR 01 00:00:00.00" -> 352209666
      [] s = "2011 APR 01 00:00:00.00" -> 354888066

\* Positions the kernels may give for the sun: integer vectors whose
\* horizontal norm and norm are integers (the origin and the poles included).
Positions ==
    << <<3, 4, 12>>, <<-3, 4, 12>>, <<3, -4, -12>>, <<-4, -3, 0>>,
       <<0, 0, 5>>, <<5, 0, 12>>, <<0, -5, 12>>, <<-5, 0, 0>>,
       <<0, 0, -13>>, <<0, 0, 0>>, <<8, 6, 0>>, <<-8, -6, 0>> >>

\* spice.spkpos('SUN', et, ...)[0] under ephemeris k: one position per time
Spkpos(k, times) ==
    [j \in 1..Len(times) |->
        Positions[(((times[j] \div 3600) + k) % Len(Positions)) + 1]]

-----------------------------------------------------------------------------
(* numpy, as far as the script uses it *)

\* np.linspace(a, b, num, endpoint=False)
Linspace(a, b, num) == [j \in 1..num |-> a + ((j - 1) * (b - a)) \div num]

\* np.arctan2(y, x): the angle of the point (x, y), in (-pi, pi];
\* arctan2(0, 0) = 0
Arctan2(y, x) ==
    LET r == ISqrt(x * x + y * y)
    IN IF r = 0 THEN [c |-> 1, s |-> 0, d |-> 1, k |-> 0]
       ELSE [c |-> x, s |-> y, d |-> r, k |-> 0]

\* theta < 0 for the angle theta + 2*pi*k
Negative(a) == a.k < 0 \/ (a.k = 0 /\ a.s < 0)

\* np.mod(a, 2*np.pi) of an angle in (-pi, pi]: a negative angle gains a turn
Mod2Pi(a) == IF Negative(a) THEN [a EXCEPT !.k = a.k + 1] ELSE a

\* np.cos, np.sin: rationals <<numerator, denominator>>
Cos(a) == <<a.c, a.d>>

Sin(a) == <<a.s, a.d>>

\* np.vstack(rows).T : the matrix whose column j is rows[j]
VstackT(rows) ==
    [f \in 1..Len(rows[1]) |-> [j \in 1..Len(rows) |-> rows[j][f]]]

\* M[:, j - 1]: the column before (index -1 is the last column)
ColumnPrev(M, j) == [f \in 1..Len(M) |-> M[f][((j - 1) % Len(M[1])) + 1]]

\* M[:, j] for the 0-based index j
Column(M, j) == [f \in 1..Len(M) |-> M[f][j + 1]]

\* the number of columns of M
NCols(M) == Len(M[1])

-----------------------------------------------------------------------------
(* The coordinate transform of the script *)

\* lonsun = np.mod(np.arctan2(possun[:, 1], possun[:, 0]), 2*np.pi)
Lonsun(pos) == [j \in 1..Len(pos) |-> Mod2Pi(Arctan2(pos[j][2], pos[j][1]))]

\* radsun = np.sqrt(np.sum(possun[:, :2]**2, axis=1))
Radsun(pos) ==
    [j \in 1..Len(pos) |-> ISqrt(pos[j][1] * pos[j][1] + pos[j][2] * pos[j][2])]

\* latsun = np.arctan2(possun[:, 2], radsun)
Latsun(pos) ==
    LET radsun == Radsun(pos)
    IN [j \in 1..Len(pos) |-> Arctan2(pos[j][3], radsun[j])]

\* a row whose second component takes the cosine of the longitude
SunDirCosCos(lon, lat) ==
    [num |-> << Cos(lon)[1] * Cos(lat)[1],
                Cos(lon)[1] * Cos(lat)[1],
                Sin(lat)[1] * Cos(lon)[2] >>,
     den |-> Cos(lon)[2] * Cos(lat)[2]]

\* one row of sun_dirs, over the common denominator lon.d * lat.d
SunDir(lon, lat) ==
    [num |-> << Cos(lon)[1] * Cos(lat)[1],
                Sin(lon)[1] * Cos(lat)[1],
                Sin(lat)[1] * Cos(lon)[2] >>,
     den |-> Cos(lon)[2] * Cos(lat)[2]]

\* sun_dirs = np.array([cos lon cos lat, sin lon cos lat, sin lat]).T
SunDirs(lon, lat) == [j \in 1..Len(lon) |-> SunDir(lon[j], lat[j])]

-----------------------------------------------------------------------------
(* The input files *)

\* surface normals of the faces, cycling through four orientations
NormalTable == << <<0, 0, 1>>, <<1, 0, 0>>, <<0, -1, 0>>, <<-1, 0, 0>> >>

\* np.load(name): the array stored in the file
NpLoad(name) ==
    CASE name = "lsp_V.npy" -> [v \in 1..(NFaces + 2) |-> <<v, (v * v) % 3, 0>>]
      [] name = "lsp_F.npy" -> [f \in 1..NFaces |-> <<f, f + 1, f + 2>>]
      [] name = "lsp_N.npy" ->
            [f \in 1..NFaces |-> NormalTable[((f - 1) % Len(NormalTable)) + 1]]

\* the form factor matrices a file, or the shape model, may yield
FFSet == 0..(MaxFF - 1)

-----------------------------------------------------------------------------
(* The flux library, as far as the script uses it *)

\* TrimeshShapeModel(V, F, N)
TrimeshShapeModel(v, f, n) == [V |-> v, F |-> f, N |-> n]

\* shape_model.get_direct_irradiance(F0, sun_dir): F0 times the cosine of
\* incidence on each face, zero on faces turned away from the sun
GetDirectIrradiance(sm, f0, dir) ==
    [f \in 1..Len(sm.F) |->
        LET dot == Dot(sm.N[f], dir.num)
        IN IF dot > 0 THEN (f0 * dot) \div dir.den ELSE 0]

\* the steady state of one irradiance vector e under form factors ff: the
\* irradiance plus one bounce off the other faces, absorbed and re-emitted
SteadyStateTemp(ff, e, rhoPct, emissPct) ==
    LET total == SumSeq(e)
    IN [f \in 1..Len(e) |->
          LET others == ff * (total - e[f])
              B == e[f] + (rhoPct * others) \div 100
          IN ((100 - rhoPct) * B) \div emissPct]

\* compute_steady_state_temp(FF, E, rho, emiss) for a matrix E: the list of
\* the steady states of E's columns
ComputeSteadyStateTemp(ff, e, rhoPct, emissPct) ==
    [j \in 1..NCols(e) |-> SteadyStateTemp(ff, Column(e, j - 1), rhoPct, emissPct)]

\* I=None of tripcolor_vector: no mask
None == <<>>

\* what a figure of tripcolor_vector(V, F, v, I=I) shows: the values of v on
\* the faces the boolean mask I selects (on all faces when I is None)
TripcolorVector(v, f, values, I) ==
    LET sel == IF I = None THEN 1..Len(f) ELSE {g \in 1..Len(I) : I[g]}
    IN [g \in sel |-> values[g]]

-----------------------------------------------------------------------------
(* Frame names *)

RECURSIVE Digits(_)
\* the decimal digits of n >= 0
Digits(n) == IF n < 10 THEN <<n>> ELSE Digits(n \div 10) \o <<n % 10>>

RECURSIVE ZeroPad(_, _)
ZeroPad(s, w) == IF Len(s) >= w THEN s ELSE ZeroPad(<<0>> \o s, w)

\* '%03d' % n
Fmt03d(n) == ZeroPad(Digits(n), PadWidth)

\* the shadow frame saved under the name of the temperature frame
FrameNameShadowAsT1(kind, n) ==
    [dir |-> "./frames",
     stem |-> IF kind = "lsp_T1_shadow_" THEN "lsp_T1_" ELSE kind,
     digits |-> Fmt03d(n), ext |-> ".png"]

\* './frames/lsp_<kind>_%03d.png' % n
FrameName(kind, n) ==
    [dir |-> "./frames", stem |-> kind, digits |-> Fmt03d(n), ext |-> ".png"]

\* the mask of the first frame, whatever the frame
IShadowFirst(e, n) == [f \in 1..Len(e) |-> Column(e, 0)[f] = 0]

\* I_shadow = E[:,i] == 0, a boolean mask over the faces
IShadow(e, n) == [f \in 1..Len(e) |-> Column(e, n)[f] = 0]

-----------------------------------------------------------------------------
(* Control flow *)

\* the statements of the script, in the order of the file
Script ==
    << "kclear", "furnsh", "str2et0", "str2et1", "linspace", "spkpos",
       "transform", "loadV", "loadF", "loadN", "shape", "loadFF", "ffgt",
       "irr", "vstackE", "temp", "vstackT", "mkdir",
       "plotE", "saveE", "closeE", "plotT", "saveT", "closeT",
       "plotS", "saveS", "closeS", "done" >>

\* the place of statement l in the listing prog
Pos(prog, l) == CHOOSE n \in 1..Len(prog) : prog[n] = l

\* a script that creates ./frames before it loads the form factors
ScriptMkdirEarly ==
    << "kclear", "furnsh", "str2et0", "str2et1", "linspace", "spkpos",
       "transform", "loadV", "loadF", "loadN", "shape", "mkdir", "loadFF",
       "ffgt", "irr", "vstackE", "temp", "vstackT",
       "plotE", "saveE", "closeE", "plotT", "saveT", "closeT",
       "plotS", "saveS", "closeS", "done" >>

AfterMkdirEarly(l) == ScriptMkdirEarly[Pos(ScriptMkdirEarly, l) + 1]

\* the statement that follows statement l in the script (a loop's last
\* statement is followed by the statement after the loop)
After(l) == Script[Pos(Script, l) + 1]

\* the first statement of each for loop
LoopHeads == {"irr", "plotE"}

\* the statements inside a for loop
LoopBody ==
    {"irr", "plotE", "saveE", "closeE", "plotT", "saveT", "closeT",
     "plotS", "saveS", "closeS"}

\* the statements that call a library routine, which may raise
Raising ==
    {"kclear", "furnsh", "str2et0", "str2et1", "spkpos", "loadV", "loadF",
     "loadN", "shape", "loadFF", "ffgt", "irr", "temp", "mkdir"}
    \cup (LoopBody \ {"irr"})

\* statement l has run: control moves to the next statement; entering a for
\* loop binds i to 0
Advance(l) ==
    /\ pc' = After(l)
    /\ i' = IF After(l) \in LoopHeads THEN 0 ELSE i
    /\ raised' = raised

\* a loop left after its first pass
LoopEndOnce(l, head) ==
    /\ raised' = raised
    /\ pc' = After(l)
    /\ i' = i

\* a loop that stops one sample short
LoopEndShort(l, head) ==
    /\ raised' = raised
    /\ IF i + 1 < Len(sun_dirs) - 1
         THEN pc' = head /\ i' = i + 1
         ELSE pc' = After(l) /\ i' = i

\* the last statement l of a for loop over sun_dirs has run, head being the
\* loop's first statement
LoopEnd(l, head) ==
    /\ raised' = raised
    /\ IF i + 1 < Len(sun_dirs)
         THEN pc' = head /\ i' = i + 1
         ELSE pc' = After(l) /\ i' = i

\* the call of library routine fn is recorded, with the loop index it is made
\* under (-1 outside the loops)
Call(fn) ==
    calls' = Append(calls, [fn |-> fn, idx |-> IF pc \in LoopBody THEN i ELSE -1])

-----------------------------------------------------------------------------
(* The state before the first statement *)

Init ==
    /\ pc = "kclear"
    /\ i = -1
    /\ raised = "none"
    /\ et0 = 0 /\ et1 = 0
    /\ et = <<>> /\ possun = <<>> /\ lonsun = <<>> /\ latsun = <<>>
    /\ sun_dirs = <<>>
    /\ V = <<>> /\ F = <<>> /\ N = <<>> /\ shape_model = <<>>
    /\ FF = -1 /\ FF_gt = -1
    /\ E_arr = <<>> /\ E = <<>> /\ T_arr = <<>> /\ T = <<>>
    /\ dirs = {}
    /\ reads = <<>> /\ writes = <<>>
    /\ figs = <<>> /\ fig = 0
    /\ calls = <<>>

-----------------------------------------------------------------------------
(* The statements *)

\* spice.kclear()
Kclear ==
    /\ pc = "kclear"
    /\ Call("kclear")
    /\ Advance("kclear")
    /\ UNCHANGED <<et0, et1, et, possun, lonsun, latsun, sun_dirs, V, F, N,
                   shape_model, FF, FF_gt, E_arr, E, T_arr, T, dirs, reads,
                   writes, figs, fig>>

\* spice.furnsh('simple.furnsh')
Furnsh ==
    /\ pc = "furnsh"
    /\ reads' = Append(reads, "simple.furnsh")
    /\ Call("furnsh")
    /\ Advance("furnsh")
    /\ UNCHANGED <<et0, et1, et, possun, lonsun, latsun, sun_dirs, V, F, N,
                   shape_model, FF, FF_gt, E_arr, E, T_arr, T, dirs,
                   writes, figs, fig>>

\* et0 = spice.str2et('2011 MAR 01 00:00:00.00')
Str2et0 ==
    /\ pc = "str2et0"
    /\ et0' = Str2et("2011 MAR 01 00:00:00.00")
    /\ Call("str2et")
    /\ Advance("str2et0")
    /\ UNCHANGED <<et1, et, possun, lonsun, latsun, sun_dirs, V, F, N,
                   shape_model, FF, FF_gt, E_arr, E, T_arr, T, dirs, reads,
                   writes, figs, fig>>

\* et1 = spice.str2et('2011 APR 01 00:00:00.00')
Str2et1 ==
    /\ pc = "str2et1"
    /\ et1' = Str2et("2011 APR 01 00:00:00.00")
    /\ Call("str2et")
    /\ Advance("str2et1")
    /\ UNCHANGED <<et0, et, possun, lonsun, latsun, sun_dirs, V, F, N,
                   shape_model, FF, FF_gt, E_arr, E, T_arr, T, dirs, reads,
                   writes, figs, fig>>

\* et = np.linspace(et0, et1, 100, endpoint=False)
LinspaceEt ==
    /\ pc = "linspace"
    /\ et' = Linspace(et0, et1, NSamples)
    /\ Advance("linspace")
    /\ UNCHANGED <<et0, et1, possun, lonsun, latsun, sun_dirs, V, F, N,
                   shape_model, FF, FF_gt, E_arr, E, T_arr, T, dirs, reads,
                   writes, figs, fig, calls>>

\* possun = spice.spkpos('SUN', et, 'MOON_ME', 'LT+S', 'MOON')[0]
SpkposSun ==
    /\ pc = "spkpos"
    /\ \E k \in 0..(MaxTraj - 1) : possun' = Spkpos(k, et)
    /\ Call("spkpos")
    /\ Advance("spkpos")
    /\ UNCHANGED <<et0, et1, et, lonsun, latsun, sun_dirs, V, F, N,
                   shape_model, FF, FF_gt, E_arr, E, T_arr, T, dirs, reads,
                   writes, figs, fig>>

\* lonsun, radsun, latsun and sun_dirs from possun
Transform ==
    /\ pc = "transform"
    /\ lonsun' = Lonsun(possun)
    /\ latsun' = Latsun(possun)
    /\ sun_dirs' = SunDirs(lonsun', latsun')
    /\ Advance("transform")
    /\ UNCHANGED <<et0, et1, et, possun, V, F, N,
                   shape_model, FF, FF_gt, E_arr, E, T_arr, T, dirs, reads,
                   writes, figs, fig, calls>>

\* V = np.load('lsp_V.npy')
LoadV ==
    /\ pc = "loadV"
    /\ V' = NpLoad("lsp_V.npy")
    /\ reads' = Append(reads, "lsp_V.npy")
    /\ Call("np.load")
    /\ Advance("loadV")
    /\ UNCHANGED <<et0, et1, et, possun, lonsun, latsun, sun_dirs, F, N,
                   shape_model, FF, FF_gt, E_arr, E, T_arr, T, dirs,
                   writes, figs, fig>>

\* F = np.load('lsp_F.npy')
LoadF ==
    /\ pc = "loadF"
    /\ F' = NpLoad("lsp_F.npy")
    /\ reads' = Append(reads, "lsp_F.npy")
    /\ Call("np.load")
    /\ Advance("loadF")
    /\ UNCHANGED <<et0, et1, et, possun, lonsun, latsun, sun_dirs, V, N,
                   shape_model, FF, FF_gt, E_arr, E, T_arr, T, dirs,
                   writes, figs, fig>>

\* N = np.load('lsp_N.npy')
LoadN ==
    /\ pc = "loadN"
    /\ N' = NpLoad("lsp_N.npy")
    /\ reads' = Append(reads, "lsp_N.npy")
    /\ Call("np.load")
    /\ Advance("loadN")
    /\ UNCHANGED <<et0, et1, et, possun, lonsun, latsun, sun_dirs, V, F,
                   shape_model, FF, FF_gt, E_arr, E, T_arr, T, dirs,
                   writes, figs, fig>>

\* shape_model = TrimeshShapeModel(V, F, N)
Shape ==
    /\ pc = "shape"
    /\ shape_model' = TrimeshShapeModel(V, F, N)
    /\ Call("TrimeshShapeModel")
    /\ Advance("shape")
    /\ UNCHANGED <<et0, et1, et, possun, lonsun, latsun, sun_dirs, V, F, N,
                   FF, FF_gt, E_arr, E, T_arr, T, dirs, reads,
                   writes, figs, fig>>

\* FF = cff.CompressedFormFactorMatrix.from_file(FF_path)
LoadFF ==
    /\ pc = "loadFF"
    /\ FF' \in FFSet
    /\ reads' = Append(reads, "lsp_compressed_form_factors.bin")
    /\ Call("from_file")
    /\ Advance("loadFF")
    /\ UNCHANGED <<et0, et1, et, possun, lonsun, latsun, sun_dirs, V, F, N,
                   shape_model, FF_gt, E_arr, E, T_arr, T, dirs,
                   writes, figs, fig>>

\* FF_gt = get_form_factor_block(shape_model)
FFgt ==
    /\ pc = "ffgt"
    /\ FF_gt' \in FFSet
    /\ Call("get_form_factor_block")
    /\ Advance("ffgt")
    /\ UNCHANGED <<et0, et1, et, possun, lonsun, latsun, sun_dirs, V, F, N,
                   shape_model, FF, E_arr, E, T_arr, T, dirs, reads,
                   writes, figs, fig>>

\* for i, sun_dir in enumerate(sun_dirs[:]):
\*     E_arr.append(shape_model.get_direct_irradiance(F0, sun_dir))
Irr ==
    /\ pc = "irr"
    /\ E_arr' = Append(E_arr, GetDirectIrradiance(shape_model, F0, sun_dirs[i + 1]))
    /\ Call("get_direct_irradiance")
    /\ LoopEnd("irr", "irr")
    /\ UNCHANGED <<et0, et1, et, possun, lonsun, latsun, sun_dirs, V, F, N,
                   shape_model, FF, FF_gt, E, T_arr, T, dirs, reads,
                   writes, figs, fig>>

\* E = np.vstack(E_arr).T
VstackE ==
    /\ pc = "vstackE"
    /\ E' = VstackT(E_arr)
    /\ Advance("vstackE")
    /\ UNCHANGED <<et0, et1, et, possun, lonsun, latsun, sun_dirs, V, F, N,
                   shape_model, FF, FF_gt, E_arr, T_arr, T, dirs, reads,
                   writes, figs, fig, calls>>

\* the solve called with the form factor block computed from the shape model
TempGt ==
    /\ pc = "temp"
    /\ T_arr' = ComputeSteadyStateTemp(FF_gt, E, RhoPct, EmissPct)
    /\ Call("compute_steady_state_temp")
    /\ Advance("temp")
    /\ UNCHANGED <<et0, et1, et, possun, lonsun, latsun, sun_dirs, V, F, N,
                   shape_model, FF, FF_gt, E_arr, E, T, dirs, reads,
                   writes, figs, fig>>

\* T_arr = compute_steady_state_temp(FF, E, rho, emiss)
Temp ==
    /\ pc = "temp"
    /\ T_arr' = ComputeSteadyStateTemp(FF, E, RhoPct, EmissPct)
    /\ Call("compute_steady_state_temp")
    /\ Advance("temp")
    /\ UNCHANGED <<et0, et1, et, possun, lonsun, latsun, sun_dirs, V, F, N,
                   shape_model, FF, FF_gt, E_arr, E, T, dirs, reads,
                   writes, figs, fig>>

\* T = np.vstack(T_arr).T
VstackTemp ==
    /\ pc = "vstackT"
    /\ T' = VstackT(T_arr)
    /\ Advance("vstackT")
    /\ UNCHANGED <<et0, et1, et, possun, lonsun, latsun, sun_dirs, V, F, N,
                   shape_model, FF, FF_gt, E_arr, E, T_arr, dirs, reads,
                   writes, figs, fig, calls>>

\* Path('./frames').mkdir(parents=True, exist_ok=True)
Mkdir ==
    /\ pc = "mkdir"
    /\ dirs' = dirs \cup {"./frames"}
    /\ Call("mkdir")
    /\ Advance("mkdir")
    /\ UNCHANGED <<et0, et1, et, possun, lonsun, latsun, sun_dirs, V, F, N,
                   shape_model, FF, FF_gt, E_arr, E, T_arr, T, reads,
                   writes, figs, fig>>

\* a close that leaves the figure open
CloseFigNot(fs, k) == fs

\* plt.close(fig) on figure k of the list fs
CloseFig(fs, k) == [fs EXCEPT ![k].open = FALSE]

\* fig, ax = tripcolor_vector(V, F, values, I=I, cmap=cmap) at statement l
Plot(l, values, I, cmap) ==
    /\ pc = l
    /\ figs' = Append(figs, [open |-> TRUE, saves |-> 0,
                             shown |-> TripcolorVector(V, F, values, I),
                             cmap |-> cmap])
    /\ fig' = Len(figs) + 1
    /\ Call("tripcolor_vector")
    /\ Advance(l)
    /\ UNCHANGED <<et0, et1, et, possun, lonsun, latsun, sun_dirs, V, F, N,
                   shape_model, FF, FF_gt, E_arr, E, T_arr, T, dirs, reads,
                   writes>>

\* fig.savefig('./frames/<kind>%03d.png' % i) at statement l; the file can be
\* written only into a directory that exists
Save(l, kind) ==
    /\ pc = l
    /\ FrameName(kind, i).dir \in dirs
    /\ writes' = Append(writes, [name |-> FrameName(kind, i),
                                 shown |-> figs[fig].shown,
                                 cmap |-> figs[fig].cmap])
    /\ figs' = [figs EXCEPT ![fig].saves = @ + 1]
    /\ Call("savefig")
    /\ Advance(l)
    /\ UNCHANGED <<et0, et1, et, possun, lonsun, latsun, sun_dirs, V, F, N,
                   shape_model, FF, FF_gt, E_arr, E, T_arr, T, dirs, reads,
                   fig>>

\* plt.close(fig) at statement l, inside the loop body
Close(l) ==
    /\ pc = l
    /\ figs' = CloseFig(figs, fig)
    /\ Call("close")
    /\ Advance(l)
    /\ UNCHANGED <<et0, et1, et, possun, lonsun, latsun, sun_dirs, V, F, N,
                   shape_model, FF, FF_gt, E_arr, E, T_arr, T, dirs, reads,
                   writes, fig>>

\* print('frame = %d' % i); fig, ax = tripcolor_vector(V, F, E[:,i], cmap=gray)
PlotE == Plot("plotE", Column(E, i), None, "gray")

\* fig.savefig('./frames/lsp_E1_%03d.png' % i)
SaveE == Save("saveE", "lsp_E1_")

CloseE == Close("closeE")

\* fig, ax = tripcolor_vector(V, F, T[:,i], cmap=cc.cm.fire)
PlotT == Plot("plotT", Column(T, i), None, "fire")

\* fig.savefig('./frames/lsp_T1_%03d.png' % i)
SaveT == Save("saveT", "lsp_T1_")

CloseT == Close("closeT")

\* I_shadow = E[:,i] == 0
\* fig, ax = tripcolor_vector(V, F, T[:,i], I=I_shadow, cmap=rainbow, vmax=100)
PlotS == Plot("plotS", Column(T, i), IShadow(E, i), "rainbow")

\* fig.savefig('./frames/lsp_T1_shadow_%03d.png' % i)
SaveS == Save("saveS", "lsp_T1_shadow_")

\* plt.close(fig), the last statement of the loop body
CloseS ==
    /\ pc = "closeS"
    /\ figs' = CloseFig(figs, fig)
    /\ Call("close")
    /\ LoopEnd("closeS", "plotE")
    /\ UNCHANGED <<et0, et1, et, possun, lonsun, latsun, sun_dirs, V, F, N,
                   shape_model, FF, FF_gt, E_arr, E, T_arr, T, dirs, reads,
                   writes, fig>>

\* an exception that is caught, after which the statement runs again
RaiseRetry ==
    /\ pc \in Raising
    /\ pc' = pc
    /\ raised' = pc
    /\ UNCHANGED <<i, et0, et1, et, possun, lonsun, latsun, sun_dirs, V, F, N,
                   shape_model, FF, FF_gt, E_arr, E, T_arr, T, dirs, reads,
                   writes, figs, fig, calls>>

\* the library call of the current statement raises: nothing catches the
\* exception and the interpreter exits
Raise ==
    /\ pc \in Raising
    /\ pc' = "crashed"
    /\ raised' = pc
    /\ UNCHANGED <<i, et0, et1, et, possun, lonsun, latsun, sun_dirs, V, F, N,
                   shape_model, FF, FF_gt, E_arr, E, T_arr, T, dirs, reads,
                   writes, figs, fig, calls>>

Next ==
    \/ Kclear \/ Furnsh \/ Str2et0 \/ Str2et1 \/ LinspaceEt \/ SpkposSun
    \/ Transform \/ LoadV \/ LoadF \/ LoadN \/ Shape \/ LoadFF \/ FFgt
    \/ Irr \/ VstackE \/ Temp \/ VstackTemp \/ Mkdir
    \/ PlotE \/ SaveE \/ CloseE \/ PlotT \/ SaveT \/ CloseT
    \/ PlotS \/ SaveS \/ CloseS
    \/ Raise

Spec == Init /\ [][Next]_vars

-----------------------------------------------------------------------------
(* Vocabulary of the properties *)

\* the range of a sequence
Range(s) == {s[n] : n \in 1..Len(s)}

\* how many entries of the call log are calls of fn
NCalls(fn) == Cardinality({n \in 1..Len(calls) : calls[n].fn = fn})

\* the loop indices under which fn was called, in order
IdxOf(fn) ==
    LET sel == SelectSeq(calls, LAMBDA c : c.fn = fn)
    IN [n \in 1..Len(sel) |-> sel[n].idx]

\* the sample a frame belongs to (0-based) and its place among the
\* sample's three frames (0, 1, 2), from its place in the list of writes
SampleOf(a) == (a - 1) \div 3

KindOf(a) == (a - 1) % 3

\* the three stems, in the order the script writes them
Stems == <<"lsp_E1_", "lsp_T1_", "lsp_T1_shadow_">>

\* the three decimal digits of n < 1000
ThreeDigits(n) == <<n \div 100, (n \div 10) % 10, n % 10>>

-----------------------------------------------------------------------------
(* C1 *)

\* C1: every write goes to ./frames/<stem><iii>.png with <stem> one of the
\* three stems and <iii> the zero-padded sample index; the a-th write is the
\* frame of sample (a-1) div 3, no name is written twice, and a run that
\* ends without an exception has written exactly 3 * 100 frames, three per
\* sample.
C1_ThreeFramesPerSample ==
    /\ \A a \in 1..Len(writes) :
          /\ writes[a].name.dir = "./frames"
          /\ writes[a].name.ext = ".png"
          /\ writes[a].name.stem = Stems[KindOf(a) + 1]
          /\ writes[a].name.digits = ThreeDigits(SampleOf(a))
    /\ Cardinality({writes[a].name : a \in 1..Len(writes)}) = Len(writes)
    /\ Len(writes) <= 3 * 100
    /\ pc = "done" =>
          /\ Len(writes) = 3 * 100
          /\ \A n \in 0..99 : \A k \in 1..3 :
                \E a \in 1..Len(writes) :
                    /\ writes[a].name.stem = Stems[k]
                    /\ writes[a].name.digits = ThreeDigits(n)

C1_Witness == pc = "done" /\ raised = "none" /\ Len(writes) = 300

-----------------------------------------------------------------------------
(* C2 *)

\* the stage a statement belongs to: 1 ephemeris, 2 transform (and the
\* loading that follows it), 3 irradiance, 4 temperature, 5 plotting;
\* 0 before the ephemeris query
StageOfPc(l) ==
    CASE l \in {"kclear", "furnsh", "str2et0", "str2et1", "linspace"} -> 0
      [] l = "spkpos" -> 1
      [] l \in {"transform", "loadV", "loadF", "loadN", "shape", "loadFF", "ffgt"} -> 2
      [] l \in {"irr", "vstackE"} -> 3
      [] l \in {"temp", "vstackT"} -> 4
      [] OTHER -> 5

\* the stage the script is in, or was in when it crashed
Stage == StageOfPc(IF pc = "crashed" THEN raised ELSE pc)

\* C2: the stages run in the order ephemeris, transform, irradiance,
\* temperature, plotting.  No step goes back to an earlier stage; a stage
\* is entered only when the stage before has produced its result for all
\* 100 samples; no irradiance is computed once the solve has started, and no
\* figure is made and no frame written before the solve has returned.
C2_StageOrder ==
    /\ [](/\ Stage >= 2 => Len(possun) = 100
          /\ Stage >= 3 => Len(sun_dirs) = 100 /\ Len(lonsun) = 100
          /\ Stage >= 4 =>
                Len(E_arr) = 100 /\ NCalls("get_direct_irradiance") = 100
          /\ Stage >= 5 => Len(T_arr) = 100 /\ T # <<>>
          /\ (figs # <<>> \/ writes # <<>>) => Stage = 5
          /\ possun # <<>> => Stage >= 1
          /\ sun_dirs # <<>> => Stage >= 2
          /\ E_arr # <<>> => Stage >= 3
          /\ T_arr # <<>> => Stage >= 4)
    /\ [][/\ Stage' >= Stage
          /\ Stage >= 4 => E_arr' = E_arr /\ E' = E
          /\ Stage >= 3 => sun_dirs' = sun_dirs
          /\ Stage >= 2 => possun' = possun
          /\ Stage >= 5 => T_arr' = T_arr /\ T' = T]_vars

C2_Witness ==
    /\ pc = "done"
    /\ NCalls("spkpos") = 1
    /\ NCalls("get_direct_irradiance") = 100
    /\ NCalls("compute_steady_state_temp") = 1
    /\ NCalls("savefig") = 300

-----------------------------------------------------------------------------
(* C3 *)

\* C3: once a library call has raised, the script takes no further step: a
\* step is taken only while nothing has raised, and the step in which a call
\* raises ends the script at that call, makes no call, creates no directory
\* and no figure, and leaves the frames written so far as they are.
C3_RaiseStops ==
    [][/\ raised = "none"
       /\ raised' # "none" =>
             /\ raised' = pc
             /\ pc' = "crashed"
             /\ writes' = writes /\ calls' = calls
             /\ figs' = figs /\ dirs' = dirs /\ reads' = reads]_vars

C3_Witness == raised = "saveT" /\ pc = "crashed" /\ Len(writes) = 4

-----------------------------------------------------------------------------
(* C4 *)

\* the five input files
InputFiles ==
    {"simple.furnsh", "lsp_V.npy", "lsp_F.npy", "lsp_N.npy",
     "lsp_compressed_form_factors.bin"}

-----------------------------------------------------------------------------
(* C5 *)

\* C5: E and T have one row per face and one column per sample; column j of
\* E is the direct irradiance of direction sun_dirs[j], column j of T is the
\* steady state of column j of E under FF, and the first two frames of
\* sample n, named by n, show E[:,n] and T[:,n] on all faces.  Once built, E
\* and T do not change, so a frame shows the columns of the final matrices.
C5_MatchingIndices ==
    /\ [](/\ E # <<>> =>
                /\ Len(E) = Len(F)
                /\ \A f \in 1..Len(E) : Len(E[f]) = 100
                /\ \A j \in 1..100 :
                      LET irr == GetDirectIrradiance(shape_model, F0, sun_dirs[j])
                      IN \A f \in 1..Len(E) : E[f][j] = irr[f]
          /\ T # <<>> =>
                /\ Len(T) = Len(E)
                /\ \A f \in 1..Len(T) : Len(T[f]) = Len(E[f])
                /\ \A j \in 1..100 :
                      LET col == [g \in 1..Len(E) |-> E[g][j]]
                          sol == SteadyStateTemp(FF, col, RhoPct, EmissPct)
                      IN \A f \in 1..Len(T) : T[f][j] = sol[f]
          /\ \A a \in 1..Len(writes) :
                /\ writes[a].name.digits = ThreeDigits(SampleOf(a))
                /\ KindOf(a) = 0 =>
                      writes[a].shown = [f \in 1..Len(F) |-> E[f][SampleOf(a) + 1]]
                /\ KindOf(a) = 1 =>
                      writes[a].shown = [f \in 1..Len(F) |-> T[f][SampleOf(a) + 1]])
    /\ [][(E # <<>> => E' = E) /\ (T # <<>> => T' = T)]_vars

\* frames of two samples whose irradiance and temperature differ
C5_Witness ==
    /\ pc = "done"
    /\ writes[1].shown # writes[4].shown
    /\ writes[2].shown # writes[5].shown
    /\ writes[2].shown # writes[1].shown

-----------------------------------------------------------------------------
(* C6 *)

\* C6 as stated: get_direct_irradiance and compute_steady_state_temp are both
\* called inside the per-sample loop, once for each sample.
C6_BothInsideLoop ==
    /\ \A n \in 1..Len(calls) :
          calls[n].fn \in {"get_direct_irradiance", "compute_steady_state_temp"}
             => calls[n].idx >= 0
    /\ pc = "done" =>
          /\ NCalls("get_direct_irradiance") = 100
          /\ NCalls("compute_steady_state_temp") = 100

\* C6 amended: get_direct_irradiance is called inside the per-sample loop,
\* once for each sample, in the order of the samples;
\* compute_steady_state_temp is called at most once, outside any loop, only
\* after the loop has made all its calls, and returns one temperature vector
\* per sample; a run that ends has made 100 irradiance calls and one solve.
C6_IrradiancePerSampleOneSolve ==
    LET irr == IdxOf("get_direct_irradiance")
        sol == IdxOf("compute_steady_state_temp")
    IN /\ irr = [n \in 1..Len(irr) |-> n - 1]
       /\ Len(irr) <= 100
       /\ sol \in {<<>>, <<-1>>}
       /\ sol # <<>> => Len(irr) = 100 /\ Len(T_arr) = 100
       /\ T_arr # <<>> => sol # <<>>
       /\ pc = "done" => Len(irr) = 100 /\ sol = <<-1>>

C6_Witness ==
    /\ pc = "vstackT"
    /\ calls[Len(calls)] = [fn |-> "compute_steady_state_temp", idx |-> -1]
    /\ Len(E_arr) = 100

-----------------------------------------------------------------------------
(* C7 *)

\* 0 <= a < 2*pi
InZeroTwoPi(a) == ~Negative(a) /\ Negative([a EXCEPT !.k = a.k - 1])

-----------------------------------------------------------------------------
(* C8 *)

\* C8: the third frame of sample n, lsp_T1_shadow_<n>, shows exactly the
\* faces whose irradiance in sample n is zero, each with its temperature in
\* sample n.
C8_ShadowMask ==
    \A a \in 1..Len(writes) :
       KindOf(a) = 2 =>
          LET j == SampleOf(a) + 1
              dark == {f \in 1..Len(F) : E[f][j] = 0}
          IN /\ writes[a].name.stem = "lsp_T1_shadow_"
             /\ writes[a].name.digits = ThreeDigits(SampleOf(a))
             /\ DOMAIN writes[a].shown = dark
             /\ \A f \in dark : writes[a].shown[f] = T[f][j]

\* a shadow frame that shows some faces but not all, in a sample whose dark
\* faces are not those of the first sample, and one that shows no face
C8_Witness ==
    /\ pc = "done"
    /\ \E a \in 1..Len(writes) :
          /\ KindOf(a) = 2
          /\ DOMAIN writes[a].shown # {}
          /\ DOMAIN writes[a].shown # 1..Len(F)
          /\ DOMAIN writes[a].shown # DOMAIN writes[3].shown
    /\ \E a \in 1..Len(writes) : KindOf(a) = 2 /\ DOMAIN writes[a].shown = {}

-----------------------------------------------------------------------------
(* C9 *)

\* C9: at most one figure is open; every figure but the last created has
\* been saved once and closed; no figure is saved twice, none is closed
\* unsaved; a run that ends has created 300 figures, each saved once and
\* closed.
C9_OneOpenFigure ==
    /\ \A k \in 1..Len(figs) :
          /\ figs[k].saves <= 1
          /\ ~figs[k].open => figs[k].saves = 1
          /\ k < Len(figs) => ~figs[k].open
          /\ pc = "done" => ~figs[k].open
    /\ Cardinality({k \in 1..Len(figs) : figs[k].open}) <= 1
    /\ Len(figs) <= 300
    /\ pc = "done" => Len(figs) = 300
    /\ Len(writes) <= Len(figs)

C9_Witness ==
    /\ pc = "done"
    /\ Len(figs) = 300
    /\ \A k \in 1..Len(figs) : figs[k].saves = 1 /\ ~figs[k].open

-----------------------------------------------------------------------------
(* C10 *)

\* the a-th frame as a function of the irradiance and temperature matrices
RefFrame(a, e, t) ==
    LET j == SampleOf(a) + 1
    IN [name |-> [dir |-> "./frames", stem |-> Stems[KindOf(a) + 1],
                  digits |-> ThreeDigits(SampleOf(a)), ext |-> ".png"],
        shown |-> CASE KindOf(a) = 0 -> [f \in 1..Len(e) |-> e[f][j]]
                    [] KindOf(a) = 1 -> [f \in 1..Len(e) |-> t[f][j]]
                    [] KindOf(a) = 2 ->
                          [f \in {g \in 1..Len(e) : e[g][j] = 0} |-> t[f][j]],
        cmap |-> <<"gray", "fire", "rainbow">>[KindOf(a) + 1]]

\* C10: FF_gt is written once and read by nothing.  The step that sets it
\* changes nothing else but the control state and the call log, and
\* whatever its value, E is a function of the sun directions and the shape
\* model (built before FF_gt), the list returned by the solve is a function
\* of E and of the form factors FF read from file, T is that list
\* transposed, and every frame written is a function of E and T.
C10_IndependentOfFFgt ==
    /\ [](/\ E_arr # <<>> =>
                \A j \in 1..Len(E_arr) :
                   E_arr[j] = GetDirectIrradiance(shape_model, F0, sun_dirs[j])
          /\ E # <<>> =>
                E = [f \in 1..Len(F) |-> [j \in 1..Len(E_arr) |-> E_arr[j][f]]]
          /\ T_arr # <<>> =>
                \A j \in 1..Len(E_arr) :
                   T_arr[j] = SteadyStateTemp(FF, [g \in 1..Len(F) |-> E[g][j]],
                                              RhoPct, EmissPct)
          /\ T # <<>> =>
                T = [f \in 1..Len(F) |-> [j \in 1..Len(T_arr) |-> T_arr[j][f]]]
          /\ \A a \in 1..Len(writes) : writes[a] = RefFrame(a, E, T))
    /\ [][FF_gt' # FF_gt =>
             /\ FF_gt = -1
             /\ <<sun_dirs', shape_model', FF', E_arr', E', T_arr', T', writes'>>
                   = <<sun_dirs, shape_model, FF, E_arr, E, T_arr, T, writes>>]_vars

\* a finished run in which get_form_factor_block returned a block that is
\* not the matrix read from file
C10_Witness == pc = "done" /\ FF_gt # FF /\ FF_gt >= 0 /\ Len(writes) = 300

=============================================================================
